---- MODULE Spec2Model ----
(***************************************************************************)
(* PicFast: the content-addressed image upload / cache / retrieval         *)
(* pipeline (apps/image) and the access-key token lifecycle (apps/auth,    *)
(* utils/token_manager).  Every handler is one action; the handlers are    *)
(* operators that compute the outcome of one call from the current state.  *)
(***************************************************************************)
EXTENDS Integers, Sequences, FiniteSets, TLC

VARIABLES
    images,     \* pf_images table: fingerprint -> row
    blobs,      \* object store: storage path -> stored bytes
    cache,      \* Redis image cache: fingerprint -> entry with expiry instant
    keys,       \* fp_access_keys table: access_key -> row
    registry,   \* Redis token registry: set of entries (prefix, subject, token, until)
    now,        \* wall clock, in model time units
    last,       \* outcome of the last request
    sessions    \* database sessions of requests in flight: process -> position

vars == <<images, blobs, cache, keys, registry, now, last, sessions>>

imageVars == <<images, blobs, cache, sessions>>
authVars == <<keys, registry>>

(* ------------------------------ bounds --------------------------------- *)

MaxTime == 2
MaxViews == 2

(* ----------------------- program constants (scaled) -------------------- *)

\* ImageService.CACHE_SIZE_LIMIT_MB
CACHE_SIZE_LIMIT_MB == 3
\* ImageService.CACHE_EXPIRE_DAYS * 24 * 3600, in model time units
CACHE_EXPIRE == 2

(* ------------------------------ inputs --------------------------------- *)

Contents == {"b1", "b2"}
FileNames == {"photo.jpg", "PIC.PNG", "noext"}
\* the uploads the model tries: content and the client's file name
Uploads ==
    {<<"b1", "photo.jpg">>, <<"b1", "PIC.PNG">>, <<"b1", "noext">>, <<"b2", "photo.jpg">>}
\* at most one store is unavailable during one request
Faults == {"none", "cache", "db", "blob"}
NoExt == ""
NoPath == <<>>

\* utils.file_processors.get_file_md5: a function of the bytes alone
get_file_md5(content) ==
    CASE content = "b1" -> "k1"
      [] content = "b2" -> "k2"

Fingerprints == {get_file_md5(b) : b \in Contents} \cup {"k0"}

\* a get_file_extension that falls back to an extension of its own
get_file_extension_default(filename) ==
    CASE filename = "photo.jpg" -> "jpg"
      [] filename = "PIC.PNG" -> "png"
      [] OTHER -> "bin"

\* utils.file_processors.get_file_extension(filename): splitext, drop the dot, lower-case
get_file_extension(filename) ==
    CASE filename = "photo.jpg" -> "jpg"
      [] filename = "PIC.PNG" -> "png"
      [] OTHER -> NoExt

\* utils.file_processors.get_file_size_mb, for the two payloads of the model
\* (whole megabytes, so that ImageCreate.size: int accepts the value)
get_file_size_mb(content) ==
    CASE content = "b1" -> 2
      [] content = "b2" -> 3

\* bytes.hex() / bytes.fromhex() and json.dumps / json.loads of the cache value
Hex(content) == <<"hex", content>>
FromHex(h) == h[2]

(* ----------------------- object store (qiniu) -------------------------- *)

\* qiniu.upload_bytes(content, name) -> storage path; the path is derived from the name
StoragePathOf(file_key, ext) == <<file_key, ext>>

\* qiniu.get_mime_type(storage_path): the mime type recorded for the stored object
qiniu_get_mime_type(storage_path) ==
    CASE storage_path = NoPath -> ""
      [] storage_path[2] = "jpg" -> "image/jpeg"
      [] storage_path[2] = "png" -> "image/png"
      [] OTHER -> "application/octet-stream"

\* qiniu.upload_bytes: stores the bytes and returns the path, or returns a falsy path
qiniu_upload_bytes(store, content, file_key, ext, up) ==
    IF up
    THEN [blobs |-> [p \in DOMAIN store \cup {StoragePathOf(file_key, ext)} |->
                        IF p = StoragePathOf(file_key, ext) THEN content ELSE store[p]],
          path |-> StoragePathOf(file_key, ext)]
    ELSE [blobs |-> store, path |-> NoPath]

\* qiniu.get_file_bytes(storage_path) -> (success, {"content": bytes})
qiniu_get_file_bytes(store, storage_path, up) ==
    IF up /\ storage_path \in DOMAIN store
    THEN [success |-> TRUE, content |-> store[storage_path]]
    ELSE [success |-> FALSE, content |-> ""]

(* --------------------------- request record ---------------------------- *)

NoToken == <<>>

\* the outcome of one request, as the caller and the stores saw it
NoReq ==
    [op |-> "", key |-> "", content |-> "", name |-> "",
     ret |-> "", status |-> 0, detail |-> "", http |-> 0, code |-> 0,
     out |-> "", mime |-> "", hit |-> FALSE, steps |-> <<>>, lapsed |-> {},
     fault |-> "none", after |-> "", views |-> 0,
     ak |-> <<>>, secret |-> <<>>, token |-> NoToken, type |-> "",
     access |-> NoToken, refresh |-> NoToken, header |-> <<>>,
     data |-> {}]

(* ------------------------- apps/image/schemas -------------------------- *)

\* ImageCreate: the fields without a default must be given
ImageCreateRequired == {"key", "extension", "size", "mime_type", "storage_path"}
ImageCreateFields == ImageCreateRequired \cup {"original_name"}

\* ImageCreate(**kwargs) validates: every required field is present
ImageCreateValid(kwargs) == ImageCreateRequired \subseteq DOMAIN kwargs

\* ImageResponse: every field is required
ImageResponseRequired ==
    {"id", "key", "original_name", "extension", "size", "mime_type",
     "storage_path", "view_count", "created_at", "updated_at"}

ImageResponseValid(kwargs) == ImageResponseRequired \subseteq DOMAIN kwargs

(* --------------------------- apps/image/crud --------------------------- *)

Put(f, k, v) == [x \in DOMAIN f \cup {k} |-> IF x = k THEN v ELSE f[x]]

\* ImageCRUD.get_image_by_key
get_image_by_key(tbl, key) == IF key \in DOMAIN tbl THEN <<tbl[key]>> ELSE <<>>

\* ImageCRUD.create_image: the row takes the model's fields, view_count defaults to 0
create_image(tbl, image) ==
    Put(tbl, image.key,
        [original_name |-> image.original_name, extension |-> image.extension,
         size |-> image.size, mime_type |-> image.mime_type,
         storage_path |-> image.storage_path, view_count |-> 0])

\* ImageCRUD.delete_image: the row is looked up by its id and deleted; a row is
\* identified here by its key, which is unique as the id is
delete_image(tbl, image_id) ==
    IF image_id \notin DOMAIN tbl
    THEN [ok |-> FALSE, images |-> tbl]
    ELSE [ok |-> TRUE, images |-> [k \in DOMAIN tbl \ {image_id} |-> tbl[k]]]

\* a create_or_update_by_key whose failed update leaves the new original_name
\* in the row
create_or_update_by_key_partial(tbl, image, increment_view, dbUp) ==
    IF ~dbUp
    THEN [ok |-> FALSE,
          images |-> IF image.key \in DOMAIN tbl
                     THEN [tbl EXCEPT ![image.key].original_name = image.original_name]
                     ELSE tbl]
    ELSE IF get_image_by_key(tbl, image.key) # <<>>
    THEN [ok |-> TRUE,
          images |-> Put(tbl, image.key,
              [original_name |-> image.original_name, extension |-> image.extension,
               size |-> image.size, mime_type |-> image.mime_type,
               storage_path |-> image.storage_path,
               view_count |-> IF increment_view
                              THEN tbl[image.key].view_count + 1
                              ELSE tbl[image.key].view_count])]
    ELSE [ok |-> TRUE, images |-> create_image(tbl, image)]

\* ImageCRUD.create_or_update_by_key: update the row of this key, or create it.
\* dbUp = FALSE is a persistence failure: rollback, the exception is re-raised.
create_or_update_by_key(tbl, image, increment_view, dbUp) ==
    IF ~dbUp THEN [ok |-> FALSE, images |-> tbl]
    ELSE IF get_image_by_key(tbl, image.key) # <<>>
    THEN [ok |-> TRUE,
          images |-> Put(tbl, image.key,
              [original_name |-> image.original_name, extension |-> image.extension,
               size |-> image.size, mime_type |-> image.mime_type,
               storage_path |-> image.storage_path,
               view_count |-> IF increment_view
                              THEN tbl[image.key].view_count + 1
                              ELSE tbl[image.key].view_count])]
    ELSE [ok |-> TRUE, images |-> create_image(tbl, image)]

(* ------------------------- apps/image/services ------------------------- *)

\* a size test that lets a payload of exactly the limit through
BelowCacheLimit_inclusive(size) == size <= CACHE_SIZE_LIMIT_MB

\* the size test in front of both calls of _cache_image
BelowCacheLimit(size) == size < CACHE_SIZE_LIMIT_MB

\* a _cache_image that stores nothing
cache_image_drop(c, file_key, content, mime_type, cacheUp) == c

\* ImageService._cache_image: serialise and SET with a 7-day expiry; a Redis
\* failure is logged and swallowed (RedisClient.set_key returns False)
cache_image(c, file_key, content, mime_type, cacheUp) ==
    IF cacheUp
    THEN Put(c, file_key,
             [content |-> Hex(content), mime_type |-> mime_type,
              until |-> now + CACHE_EXPIRE])
    ELSE c

\* a _get_cached_image that answers with an empty entry when the lookup fails
get_cached_image_blind(c, file_key, cacheUp) ==
    IF ~cacheUp THEN <<[content |-> "", mime_type |-> ""]>>
    ELSE IF file_key \in DOMAIN c
    THEN <<[content |-> FromHex(c[file_key].content), mime_type |-> c[file_key].mime_type]>>
    ELSE <<>>

\* ImageService._get_cached_image: GET, parse, decode; None on a miss and on any
\* failure (store unreachable, value unreadable or corrupt: cacheUp = FALSE)
get_cached_image(c, file_key, cacheUp) ==
    IF cacheUp /\ file_key \in DOMAIN c
    THEN <<[content |-> FromHex(c[file_key].content), mime_type |-> c[file_key].mime_type]>>
    ELSE <<>>

\* an _update_view_count that counts nothing
update_view_count_skip(tbl, md5_key, dbUp) == tbl

\* ImageService._update_view_count: best effort, every exception is swallowed
update_view_count(tbl, md5_key, dbUp) ==
    IF dbUp /\ get_image_by_key(tbl, md5_key) # <<>>
    THEN [tbl EXCEPT ![md5_key].view_count = @ + 1]
    ELSE tbl

\* the keyword arguments upload_image passes to ImageCreate
UploadImageCreateArgs(file_key, filename, file_size, mime_type, storage_path) ==
    [key |-> file_key, original_name |-> filename, size |-> file_size,
     mime_type |-> mime_type, storage_path |-> storage_path, view_count |-> 0]

\* an upload_image that goes on to the metadata write whatever the object store said
upload_image_unguarded(content, filename, blobUp, dbUp, cacheUp) ==
    LET file_key == get_file_md5(content)
        file_extension == get_file_extension(filename)
        put == qiniu_upload_bytes(blobs, content, file_key, file_extension, blobUp)
        image == [key |-> file_key, original_name |-> filename,
                  extension |-> file_extension, size |-> get_file_size_mb(content),
                  mime_type |-> qiniu_get_mime_type(put.path),
                  storage_path |-> put.path]
        db == create_or_update_by_key(images, image, FALSE, dbUp)
    IN  [images |-> db.images, blobs |-> put.blobs, cache |-> cache,
         ret |-> IF db.ok THEN "dict" ELSE "raise",
         status |-> IF db.ok THEN 0 ELSE 500,
         detail |-> IF db.ok THEN "" ELSE "Internal server error during upload",
         result |-> IF db.ok THEN <<[success |-> TRUE, file_key |-> file_key]>>
                    ELSE <<>>,
         stored |-> put.path # NoPath]

\* ImageService.upload_image
upload_image(content, filename, blobUp, dbUp, cacheUp) ==
    LET file_size == get_file_size_mb(content)
        file_key == get_file_md5(content)
        file_extension == get_file_extension(filename)
        base == [images |-> images, blobs |-> blobs, cache |-> cache,
                 ret |-> "raise", status |-> 400, detail |-> "", result |-> <<>>,
                 stored |-> FALSE]
    IN  IF file_extension = NoExt
        THEN [base EXCEPT !.detail = "Invalid file type!"]
        ELSE
        LET put == qiniu_upload_bytes(blobs, content, file_key, file_extension, blobUp)
            mime_type == qiniu_get_mime_type(put.path)
            kwargs == UploadImageCreateArgs(file_key, filename, file_size,
                                            mime_type, put.path)
        IN  IF put.path = NoPath
            THEN [base EXCEPT !.detail = "Upload Failed!"]
            ELSE IF ~ImageCreateValid(kwargs)
            THEN [base EXCEPT !.blobs = put.blobs, !.stored = TRUE,
                              !.detail = "validation error for ImageCreate"]
            ELSE
            LET image == [f \in ImageCreateFields |-> kwargs[f]]
                db == create_or_update_by_key(images, image, FALSE, dbUp)
            IN  IF ~db.ok
                THEN [base EXCEPT !.blobs = put.blobs, !.stored = TRUE, !.status = 500,
                                  !.detail = "Internal server error during upload"]
                ELSE [base EXCEPT
                        !.blobs = put.blobs, !.stored = TRUE,
                        !.images = db.images,
                        !.cache = IF BelowCacheLimit(file_size)
                                  THEN cache_image(cache, file_key, content,
                                                   mime_type, cacheUp)
                                  ELSE cache,
                        !.ret = "dict", !.status = 0,
                        !.result = <<[success |-> TRUE, file_key |-> file_key]>>]

\* a cache-hit branch that lets a failure of the counter update reach the caller
get_image_hit_propagating(base, cached_data, md5_key, dbUp) ==
    IF ~dbUp
    THEN [base EXCEPT !.steps = <<"cache", "meta">>]
    ELSE [base EXCEPT
            !.images = update_view_count(images, md5_key, dbUp),
            !.ret = "dict", !.status = 0, !.detail = "", !.hit = TRUE,
            !.fields = {"content", "mime_type"},
            !.content = cached_data[1].content, !.mime = cached_data[1].mime_type,
            !.steps = <<"cache", "meta">>]

\* a cache-hit branch that renews the expiry of the entry it has read
get_image_hit_touch(base, cached_data, md5_key, dbUp) ==
    [base EXCEPT
        !.images = update_view_count(images, md5_key, dbUp),
        !.cache = [cache EXCEPT ![md5_key].until = now + CACHE_EXPIRE],
        !.ret = "dict", !.status = 0, !.detail = "", !.hit = TRUE,
        !.fields = {"content", "mime_type"},
        !.content = cached_data[1].content, !.mime = cached_data[1].mime_type,
        !.steps = <<"cache", "meta">>]

\* ImageService.get_image, the cache-hit branch: count the view (best effort) and
\* return the cached dictionary
get_image_hit(base, cached_data, md5_key, dbUp) ==
    [base EXCEPT
        !.images = update_view_count(images, md5_key, dbUp),
        !.ret = "dict", !.status = 0, !.detail = "", !.hit = TRUE,
        !.fields = {"content", "mime_type"},
        !.content = cached_data[1].content, !.mime = cached_data[1].mime_type,
        !.steps = <<"cache", "meta">>]

\* ImageService.get_image
get_image(md5_key, cacheUp, dbUp, blobUp) ==
    LET cached_data == get_cached_image(cache, md5_key, cacheUp)
        base == [images |-> images, cache |-> cache, ret |-> "raise", status |-> 500,
                 detail |-> "Internal server error while retrieving image",
                 fields |-> {}, content |-> "", mime |-> "", hit |-> FALSE,
                 steps |-> <<"cache">>]
    IN  IF cached_data # <<>>
        THEN get_image_hit(base, cached_data, md5_key, dbUp)
        ELSE IF ~dbUp
        THEN [base EXCEPT !.steps = <<"cache", "meta">>]
        ELSE IF get_image_by_key(images, md5_key) = <<>>
        THEN [base EXCEPT !.ret = "none", !.status = 0, !.detail = "",
                          !.steps = <<"cache", "meta">>]
        ELSE
        LET db_image == images[md5_key]
            counted == [images EXCEPT ![md5_key].view_count = @ + 1]
            got == qiniu_get_file_bytes(blobs, db_image.storage_path, blobUp)
        IN  IF ~got.success
            THEN [base EXCEPT !.images = counted, !.status = 404,
                              !.detail = "Image content not found",
                              !.steps = <<"cache", "meta", "blob">>]
            ELSE [base EXCEPT
                    !.images = counted,
                    !.cache = IF BelowCacheLimit(db_image.size)
                              THEN cache_image(cache, md5_key, got.content,
                                               db_image.mime_type, cacheUp)
                              ELSE cache,
                    !.ret = "dict", !.status = 0, !.detail = "",
                    !.fields = {"content", "mime_type", "original_name"},
                    !.content = got.content, !.mime = db_image.mime_type,
                    !.steps = <<"cache", "meta", "blob">>]

(* --------------------------- apps/image/views -------------------------- *)

\* views.upload_image: the HTTP answer to the service's outcome
upload_image_view(r) ==
    IF r.ret = "dict" /\ ImageResponseValid(r.result[1])
    THEN [http |-> 200, code |-> 200, out |-> r.result[1].file_key]
    ELSE [http |-> 400, code |-> 500, out |-> ""]

\* views.get_image: the HTTP answer to the service's outcome
get_image_view(r) ==
    IF r.ret = "none"
    THEN [http |-> 404, code |-> 404, out |-> "", mime |-> ""]
    ELSE IF r.ret = "dict" /\ {"content", "mime_type", "original_name"} \subseteq r.fields
    THEN [http |-> 200, code |-> 200, out |-> r.content, mime |-> r.mime]
    ELSE [http |-> 400, code |-> 500, out |-> "", mime |-> ""]

(* ---------------------------- utils/security ---------------------------- *)

\* generate_access_key: "ak-" and the 32 hex digits of a uuid4; every key has the
\* same length, here the tag and one symbol
AccessKeyIds == {<<"ak", "1">>, <<"ak", "2">>}

\* generate_secret_key: "sk-" and 40 random characters, drawn once per key
generate_secret_key(access_key) == <<"sk", access_key[2]>>
WrongSecret == <<"sk", "x">>

\* hash_secret_key / verify_secret_key: argon2 via passlib
hash_secret_key(secret_key) == <<"argon2", secret_key>>
verify_secret_key(plain_secret_key, hashed_secret_key) ==
    hashed_secret_key = hash_secret_key(plain_secret_key)

(* ------------------------------ settings ------------------------------- *)

\* TOKEN_EXPIRE_SECONDS (one day) and TOKEN_REFRESH_EXPIRE_SECONDS (seven days),
\* in model time units
TOKEN_EXPIRE_SECONDS == 2
TOKEN_REFRESH_EXPIRE_SECONDS == 3
TOKEN_REDIS_PREFIX == "token"
TOKEN_REFRESH_REDIS_PREFIX == "token:refresh"

(* --------------------------- apps/auth/crud ---------------------------- *)

NoDate == <<>>

\* the WHERE clause shared by validate_credentials and get_access_key_by_access_key:
\* is_enabled and (expires_at is NULL or expires_at > now)
Selectable(row) ==
    /\ row.is_enabled
    /\ (row.expires_at = NoDate \/ row.expires_at[1] > now)

\* AccessKeyCRUD.create
create(tbl, access_key, expires_at) ==
    Put(tbl, access_key,
        [id |-> access_key[2],
         secret_key |-> hash_secret_key(generate_secret_key(access_key)),
         is_enabled |-> TRUE, expires_at |-> expires_at, last_used_at |-> NoDate])

\* a validate_credentials whose query does not filter on is_enabled and expires_at
validate_credentials_unfiltered(tbl, access_key, secret_key) ==
    IF access_key \in DOMAIN tbl
          /\ verify_secret_key(secret_key, tbl[access_key].secret_key)
    THEN <<tbl[access_key]>>
    ELSE <<>>

\* AccessKeyCRUD.validate_credentials: the row, or None
validate_credentials(tbl, access_key, secret_key) ==
    IF access_key \in DOMAIN tbl /\ Selectable(tbl[access_key])
    THEN (IF verify_secret_key(secret_key, tbl[access_key].secret_key)
          THEN <<tbl[access_key]>>
          ELSE <<>>)
    ELSE <<>>

\* AccessKeyCRUD.get_access_key_by_access_key: the row if enabled and unexpired, or None
get_access_key_by_access_key(tbl, access_key) ==
    IF access_key \in DOMAIN tbl /\ Selectable(tbl[access_key])
    THEN <<tbl[access_key]>>
    ELSE <<>>

\* AccessKeyCRUD.update_last_used
update_last_used(tbl, access_key) ==
    IF access_key \in DOMAIN tbl
    THEN [tbl EXCEPT ![access_key].last_used_at = <<now>>]
    ELSE tbl

\* AccessKeyCRUD.disable
disable(tbl, access_key) ==
    IF access_key \in DOMAIN tbl
    THEN [tbl EXCEPT ![access_key].is_enabled = FALSE]
    ELSE tbl

\* AccessKeyCRUD.disable_access_key
disable_access_key(tbl, access_key) ==
    IF access_key \in DOMAIN tbl
    THEN [tbl EXCEPT ![access_key].is_enabled = FALSE,
                     ![access_key].last_used_at = <<now>>]
    ELSE tbl

\* AccessKeyCRUD.disable_access_key with its outcome: True when a row was
\* updated, False when no row matched or when the UPDATE or the commit failed
\* (rolled back, logged, not raised)
disable_access_key_result(tbl, access_key, dbUp) ==
    IF dbUp /\ access_key \in DOMAIN tbl
    THEN [ok |-> TRUE, keys |-> disable_access_key(tbl, access_key)]
    ELSE [ok |-> FALSE, keys |-> tbl]

(* ------------------------- core/engine RedisClient --------------------- *)

IsPrefix(p, q) == Len(p) <= Len(q) /\ SubSeq(q, 1, Len(p)) = p

\* the registry key f'{prefix}:{subject}:{token}' and an entry with its expiry instant
Entry(prefix, subject, token, ttl) ==
    [prefix |-> prefix, sub |-> subject, token |-> token, until |-> now + ttl]

\* SETEX key ttl token: writes the key, replacing an older value and TTL
setex(reg, prefix, subject, token, ttl) ==
    {e \in reg : ~(e.prefix = prefix /\ e.sub = subject /\ e.token = token)}
        \cup {Entry(prefix, subject, token, ttl)}

\* GET key: the stored token, or None
redis_get(reg, prefix, subject, token) ==
    IF \E e \in reg : e.prefix = prefix /\ e.sub = subject /\ e.token = token
    THEN <<token>>
    ELSE <<>>

\* a delete_prefix that matches on the prefix alone, whatever the access key
delete_prefix_any_key(reg, prefix, access_key, redisUp) ==
    IF redisUp THEN {e \in reg : e.prefix # prefix} ELSE reg

\* RedisClient.delete_prefix(f'{prefix}:{access_key}'): deletes the keys matching
\* f'{prefix}:{access_key}*'; any Redis error is logged and swallowed
delete_prefix(reg, prefix, access_key, redisUp) ==
    IF redisUp
    THEN {e \in reg : ~(e.prefix = prefix /\ IsPrefix(access_key, e.sub))}
    ELSE reg

(* -------------------------- utils/token_manager ------------------------ *)

\* jwt.encode: the token is a function of its claims and of the signing key;
\* <<type, sub, exp, signature>>
TokenTypes == {"access", "refresh"}
Token(type, subject, exp) == <<type, subject, exp, "ok">>
TType(t) == t[1]
TSub(t) == t[2]
TExp(t) == t[3]
TSig(t) == t[4]

\* a _store_token_in_redis that files every token under the access prefix
store_token_in_redis_one_prefix(reg, token, subject, expire_seconds, is_refresh) ==
    setex(reg, TOKEN_REDIS_PREFIX, subject, token, expire_seconds)

\* a _store_token_in_redis with multi_login False: the subject's other tokens
\* under the prefix are deleted first
store_token_in_redis_single_login(reg, token, subject, expire_seconds, is_refresh) ==
    setex(delete_prefix(reg,
                        IF is_refresh THEN TOKEN_REFRESH_REDIS_PREFIX
                        ELSE TOKEN_REDIS_PREFIX,
                        subject, TRUE),
          IF is_refresh THEN TOKEN_REFRESH_REDIS_PREFIX ELSE TOKEN_REDIS_PREFIX,
          subject, token, expire_seconds)

\* TokenManager._store_token_in_redis (multi_login defaults to True: nothing is deleted)
store_token_in_redis(reg, token, subject, expire_seconds, is_refresh) ==
    setex(reg,
          IF is_refresh THEN TOKEN_REFRESH_REDIS_PREFIX ELSE TOKEN_REDIS_PREFIX,
          subject, token, expire_seconds)

\* TokenManager.create_access_token
create_access_token(reg, subject) ==
    LET token == Token("access", subject, now + TOKEN_EXPIRE_SECONDS)
    IN  [registry |-> store_token_in_redis(reg, token, subject,
                                           TOKEN_EXPIRE_SECONDS, FALSE),
         token |-> token]

\* TokenManager.create_refresh_token (expire_time is None on every call of the service)
create_refresh_token(reg, subject) ==
    LET token == Token("refresh", subject, now + TOKEN_REFRESH_EXPIRE_SECONDS)
    IN  [registry |-> store_token_in_redis(reg, token, subject,
                                           TOKEN_REFRESH_EXPIRE_SECONDS, TRUE),
         token |-> token]

\* TokenManager.generate_token_pair; a Redis failure makes it raise 500
generate_token_pair(reg, subject, redisUp) ==
    IF ~redisUp
    THEN [ok |-> FALSE, registry |-> reg, access |-> NoToken, refresh |-> NoToken]
    ELSE LET a == create_access_token(reg, subject)
             r == create_refresh_token(a.registry, subject)
         IN  [ok |-> TRUE, registry |-> r.registry, access |-> a.token,
              refresh |-> r.token]

\* TokenManager.generate_token_pair with Redis failing at the SETEX of the access
\* token (accessUp = FALSE) or at the SETEX of the refresh token (refreshUp =
\* FALSE): the tokens are created and stored one after the other, and the except
\* branch raises 500 without deleting what has been stored
generate_token_pair_stores(reg, subject, accessUp, refreshUp) ==
    IF ~accessUp
    THEN [ok |-> FALSE, registry |-> reg, access |-> NoToken, refresh |-> NoToken]
    ELSE LET a == create_access_token(reg, subject)
             r == create_refresh_token(a.registry, subject)
         IN  IF ~refreshUp
             THEN [ok |-> FALSE, registry |-> a.registry, access |-> NoToken,
                   refresh |-> NoToken]
             ELSE [ok |-> TRUE, registry |-> r.registry, access |-> a.token,
                   refresh |-> r.token]

\* TokenManager.decode_token: jwt.decode checks the signature and exp, then sub
decode_token(token) ==
    IF token = NoToken \/ TSig(token) # "ok"
    THEN [ok |-> FALSE, status |-> 401, detail |-> "Could not validate token"]
    ELSE IF TExp(token) < now
    THEN [ok |-> FALSE, status |-> 401, detail |-> "Token has expired"]
    ELSE [ok |-> TRUE, status |-> 0, detail |-> ""]

\* a verify_token that trusts signature, expiry and type and skips the registry
verify_token_unregistered(reg, token, token_type) ==
    LET payload == decode_token(token)
    IN  IF ~payload.ok THEN payload
        ELSE IF TType(token) # token_type
        THEN [ok |-> FALSE, status |-> 401, detail |-> "Invalid token type"]
        ELSE [ok |-> TRUE, status |-> 0, detail |-> ""]

\* TokenManager.verify_token
verify_token(reg, token, token_type) ==
    LET payload == decode_token(token)
    IN  IF ~payload.ok THEN payload
        ELSE IF TType(token) # token_type
        THEN [ok |-> FALSE, status |-> 401, detail |-> "Invalid token type"]
        ELSE IF redis_get(reg,
                          IF token_type = "access" THEN TOKEN_REDIS_PREFIX
                          ELSE TOKEN_REFRESH_REDIS_PREFIX,
                          TSub(token), token) # <<token>>
        THEN [ok |-> FALSE, status |-> 401, detail |-> "Token is invalid or expired"]
        ELSE [ok |-> TRUE, status |-> 0, detail |-> ""]

\* TokenManager.revoke_tokens: two delete_prefix calls, then True
revoke_tokens(reg, access_key, redisUp) ==
    delete_prefix(delete_prefix(reg, TOKEN_REDIS_PREFIX, access_key, redisUp),
                  TOKEN_REFRESH_REDIS_PREFIX, access_key, redisUp)

(* ------------------------- apps/auth/services -------------------------- *)

\* a _validate_and_generate_tokens that generates the pair without looking at the key
validate_and_generate_tokens_unchecked(key_info, access_key, redisUp) ==
    LET p == generate_token_pair(registry, access_key, redisUp)
    IN  [keys |-> update_last_used(keys, access_key),
         registry |-> p.registry,
         status |-> IF p.ok THEN 200 ELSE 500,
         detail |-> IF p.ok THEN "" ELSE "Could not generate token pair",
         access |-> p.access, refresh |-> p.refresh]

\* AuthService._validate_and_generate_tokens
validate_and_generate_tokens(key_info, access_key, redisUp) ==
    LET base == [keys |-> keys, registry |-> registry, status |-> 200, detail |-> "",
                 access |-> NoToken, refresh |-> NoToken]
    IN  IF key_info = <<>>
        THEN [base EXCEPT !.status = 401, !.detail = "Invalid credentials"]
        ELSE IF ~key_info[1].is_enabled
        THEN [base EXCEPT !.status = 403, !.detail = "Access key is disabled"]
        ELSE IF key_info[1].expires_at # NoDate /\ key_info[1].expires_at[1] < now
        THEN [base EXCEPT !.status = 403, !.detail = "Access key has expired"]
        ELSE LET p == generate_token_pair(registry, access_key, redisUp)
             IN  IF ~p.ok
                 THEN [base EXCEPT !.keys = update_last_used(keys, access_key),
                                   !.status = 500,
                                   !.detail = "Could not generate token pair"]
                 ELSE [base EXCEPT !.keys = update_last_used(keys, access_key),
                                   !.registry = p.registry,
                                   !.access = p.access, !.refresh = p.refresh]

\* AuthService.issue_token
issue_token(access_key, secret_key, redisUp) ==
    validate_and_generate_tokens(validate_credentials(keys, access_key, secret_key),
                                 access_key, redisUp)

\* AuthService.refresh_credentials
refresh_credentials(refresh_token, redisUp) ==
    LET v == verify_token(registry, refresh_token, "refresh")
    IN  IF ~v.ok
        THEN [keys |-> keys, registry |-> registry, status |-> v.status,
              detail |-> v.detail, access |-> NoToken, refresh |-> NoToken]
        ELSE validate_and_generate_tokens(
                 get_access_key_by_access_key(keys, TSub(refresh_token)),
                 TSub(refresh_token), redisUp)

\* AuthService.revoke_credentials behind Depends(token_manager.verify_request)
revoke_credentials(token, redisUp) ==
    LET v == verify_token(registry, token, "access")
    IN  IF ~v.ok
        THEN [keys |-> keys, registry |-> registry, status |-> v.status,
              detail |-> v.detail]
        ELSE [keys |-> disable_access_key(keys, TSub(token)),
              registry |-> revoke_tokens(registry, TSub(token), redisUp),
              status |-> 200, detail |-> "Credentials successfully revoked"]

(* ------------------------------ image actions -------------------------- *)

Empty == [x \in {} |-> 0]

\* Redis key expiry: the entries whose expiry instant has been reached at time t
Lapsed(c, t) == {k \in DOMAIN c : c[k].until <= t}
Unexpired(c, t) == [k \in DOMAIN c \ Lapsed(c, t) |-> c[k]]

ViewsOf(tbl, key) == IF key \in DOMAIN tbl THEN tbl[key].view_count ELSE 0

\* history: was the request before this one a retrieval of the same fingerprint
\* that returned content, with the fingerprint's cache entry not expired since
After(md5_key) ==
    IF last.op = "get" /\ last.key = md5_key /\ last.ret = "dict"
       /\ md5_key \notin last.lapsed
    THEN (IF last.fault = "cache" THEN "get-cachefault" ELSE "get")
    ELSE ""

\* POST /image/upload
UploadImage ==
    \E u \in Uploads, fault \in Faults :
        LET content == u[1]
            filename == u[2]
            r == upload_image(content, filename, fault # "blob", fault # "db",
                              fault # "cache")
            v == upload_image_view(r)
        IN  /\ images' = r.images
            /\ blobs' = r.blobs
            /\ cache' = r.cache
            /\ last' = [NoReq EXCEPT
                           !.op = "upload", !.key = get_file_md5(content),
                           !.content = content, !.name = filename,
                           !.ret = r.ret, !.status = r.status, !.detail = r.detail,
                           !.http = v.http, !.code = v.code, !.out = v.out,
                           !.fault = fault,
                           !.views = ViewsOf(images, get_file_md5(content))]
            /\ UNCHANGED <<keys, registry, now, sessions>>

\* ImageCRUD.create_or_update_by_key called with a complete ImageCreate for an
\* object that is in the object store
CreateOrUpdateByKey ==
    \E u \in Uploads, fault \in {"none", "db"} :
        LET content == u[1]
            filename == u[2]
            file_key == get_file_md5(content)
            path == StoragePathOf(file_key, get_file_extension(filename))
            image == [key |-> file_key, original_name |-> filename,
                      extension |-> get_file_extension(filename),
                      size |-> get_file_size_mb(content),
                      mime_type |-> qiniu_get_mime_type(path),
                      storage_path |-> path]
            r == create_or_update_by_key(images, image, FALSE, fault # "db")
        IN  /\ path \in DOMAIN blobs
            /\ images' = r.images
            /\ last' = [NoReq EXCEPT
                           !.op = "upsert", !.key = file_key, !.content = content,
                           !.name = filename,
                           !.ret = IF r.ok THEN "row" ELSE "raise",
                           !.fault = fault, !.views = ViewsOf(images, file_key)]
            /\ UNCHANGED <<blobs, cache, keys, registry, now, sessions>>

\* GET /image/{md5_key}
GetImage ==
    \E md5_key \in Fingerprints, fault \in Faults :
        LET r == get_image(md5_key, fault # "cache", fault # "db", fault # "blob")
            v == get_image_view(r)
        IN  /\ ViewsOf(images, md5_key) < MaxViews
            /\ images' = r.images
            /\ cache' = r.cache
            /\ last' = [NoReq EXCEPT
                           !.op = "get", !.key = md5_key,
                           !.ret = r.ret, !.status = r.status, !.detail = r.detail,
                           !.content = r.content, !.mime = r.mime, !.hit = r.hit,
                           !.steps = r.steps,
                           !.http = v.http, !.code = v.code, !.out = v.out,
                           !.fault = fault, !.after = After(md5_key),
                           !.views = ViewsOf(images, md5_key)]
            /\ UNCHANGED <<blobs, keys, registry, now, sessions>>

\* ImageCRUD.delete_image for one of the fingerprints
DeleteImage ==
    \E md5_key \in Fingerprints :
        LET r == delete_image(images, md5_key)
        IN  /\ images' = r.images
            /\ last' = [NoReq EXCEPT
                           !.op = "delete", !.key = md5_key,
                           !.ret = IF r.ok THEN "true" ELSE "false",
                           !.views = ViewsOf(images, md5_key)]
            /\ UNCHANGED <<blobs, cache, keys, registry, now, sessions>>

(* ------------------------------ auth actions --------------------------- *)

\* every token the service can have signed up to now
Mintable ==
    {Token("access", ak, t + TOKEN_EXPIRE_SECONDS) : ak \in AccessKeyIds, t \in 0..now}
        \cup {Token("refresh", ak, t + TOKEN_REFRESH_EXPIRE_SECONDS) :
                  ak \in AccessKeyIds, t \in 0..now}

\* the keys that are created with or without an expiry date; the others never
\* expire
ExpiringKeyIds == {<<"ak", "1">>}

\* AccessKeyCreate.expires_at: none, or the next instant
ExpiresAtChoices(access_key) ==
    IF access_key \in ExpiringKeyIds THEN {NoDate, <<now + 1>>} ELSE {NoDate}

\* the tokens clients present: the registered ones, the ones signed at time 0
\* for the first key (registered, revoked or lapsed by now), and one whose
\* signature does not verify
Forged == <<"access", <<"ak", "1">>, MaxTime + TOKEN_EXPIRE_SECONDS, "bad">>
Presentable ==
    {e.token : e \in registry}
        \cup {Token("access", ak, TOKEN_EXPIRE_SECONDS) : ak \in ExpiringKeyIds}
        \cup {Token("refresh", ak, TOKEN_REFRESH_EXPIRE_SECONDS) : ak \in ExpiringKeyIds}
        \cup {Forged}

(* the data the key endpoints answer with *)

\* the fields of one item of AuthService.list_access_keys
ItemFields == {"id", "access_key", "is_enabled", "expires_at", "last_used_at"}

\* a listing that returns the rows as they are stored
list_access_keys_rows(tbl) ==
    {[f \in ItemFields \cup {"secret_key"} |->
          IF f = "access_key" THEN ak ELSE tbl[ak][f]] : ak \in DOMAIN tbl}

\* AuthService.list_access_keys: the items built from the rows
list_access_keys(tbl) ==
    {[f \in ItemFields |-> IF f = "access_key" THEN ak ELSE tbl[ak][f]] :
         ak \in DOMAIN tbl}

\* the keys, secrets and dates an answer carries (ids and flags left out)
KeyMaterial(items) ==
    UNION {{item[f] : f \in DOMAIN item \ {"id", "is_enabled"}} : item \in items}

\* AuthService.create_access_key: the answer to a successful creation
create_access_key(access_key, expires_at) ==
    [access_key |-> access_key, secret_key |-> generate_secret_key(access_key),
     expires_at |-> expires_at]

(* request admission: the middleware stack and the route dependencies *)

\* the Authorization headers requests carry: none, or a bearer token that is
\* registered or forged
NoHeader == <<>>
Headers == {NoHeader} \cup {<<"Bearer", t>> : t \in {e.token : e \in registry} \cup {Forged}}

\* the routes of the application that are not token issuance or image retrieval
KeysPath == "/auth/keys"
RevokePath == "/auth/token/revoke"

\* settings.TOKEN_EXCLUDE: token issuance and retrieval by fingerprint
TOKEN_EXCLUDE == {"/auth/token", "/image/{md5_key}"}

\* AuthMiddleware._is_path_whitelisted
is_path_whitelisted(path) == path \in TOKEN_EXCLUDE

\* AuthMiddleware._get_token: the bearer token of the header, or a 401
get_token(header) ==
    IF header = NoHeader \/ header[1] # "Bearer"
    THEN [ok |-> FALSE, status |-> 401, detail |-> "Invalid authorization scheme"]
    ELSE [ok |-> TRUE, status |-> 200, detail |-> ""]

\* AuthMiddleware.dispatch: whitelisted paths pass, the others need a bearer
\* token that verifies as an access token
AuthMiddleware_dispatch(reg, path, header) ==
    IF is_path_whitelisted(path)
    THEN [ok |-> TRUE, status |-> 200, detail |-> ""]
    ELSE IF ~get_token(header).ok
    THEN get_token(header)
    ELSE LET r == verify_token(reg, header[2], "access")
         IN  [ok |-> r.ok, status |-> r.status, detail |-> r.detail]

\* register_middleware: the middleware the application installs
register_middleware == {"AccessMiddleware", "CORSMiddleware"}

\* the dependencies the routes declare: only the revoke view depends on
\* token_manager.verify_request
RouteDependencies(path) == IF path = RevokePath THEN {"verify_request"} ELSE {}

\* TokenManager.verify_request behind HTTPBearer: a header without bearer
\* credentials is refused, a bearer token is verified as an access token
verify_request(reg, header) ==
    IF header = NoHeader \/ header[1] # "Bearer"
    THEN [ok |-> FALSE, status |-> 403, detail |-> "Not authenticated"]
    ELSE LET r == verify_token(reg, header[2], "access")
         IN  [ok |-> r.ok, status |-> r.status, detail |-> r.detail]

\* register_app: a request passes the installed middleware, then the route's
\* dependencies, and then reaches the view
Admit(reg, path, header) ==
    IF "AuthMiddleware" \in register_middleware
           /\ ~AuthMiddleware_dispatch(reg, path, header).ok
    THEN AuthMiddleware_dispatch(reg, path, header)
    ELSE IF "verify_request" \in RouteDependencies(path)
    THEN verify_request(reg, header)
    ELSE [ok |-> TRUE, status |-> 200, detail |-> ""]

\* POST /auth/keys with any Authorization header
CreateAccessKey ==
    \E access_key \in AccessKeyIds \ DOMAIN keys, header \in Headers :
      \E expires_at \in ExpiresAtChoices(access_key) :
        LET a == Admit(registry, KeysPath, header)
        IN  /\ keys' = IF a.ok THEN create(keys, access_key, expires_at) ELSE keys
            /\ last' = [NoReq EXCEPT !.op = "create", !.ak = access_key,
                                     !.header = header,
                                     !.secret = IF a.ok
                                                THEN generate_secret_key(access_key)
                                                ELSE <<>>,
                                     !.data = IF a.ok
                                              THEN KeyMaterial({create_access_key(
                                                       access_key, expires_at)})
                                              ELSE {},
                                     !.status = a.status, !.detail = a.detail,
                                     !.http = a.status]
            /\ UNCHANGED <<imageVars, registry, now>>

\* GET /auth/keys
ListAccessKeys ==
    /\ last' = [NoReq EXCEPT !.op = "list", !.http = 200,
                             !.data = KeyMaterial(list_access_keys(keys))]
    /\ UNCHANGED <<imageVars, authVars, now>>

\* POST /auth/token; the fault is Redis failing when the tokens are stored
IssueToken ==
    \E access_key \in AccessKeyIds, fault \in {"none", "cache"} :
      \E secret_key \in {generate_secret_key(access_key), WrongSecret} :
        LET r == issue_token(access_key, secret_key, fault # "cache")
        IN  /\ fault = "cache" => r.status = 500
            /\ keys' = r.keys
            /\ registry' = r.registry
            /\ last' = [NoReq EXCEPT !.op = "issue", !.ak = access_key,
                                     !.secret = secret_key, !.fault = fault,
                                     !.status = r.status, !.detail = r.detail,
                                     !.http = r.status,
                                     !.access = r.access, !.refresh = r.refresh,
                                     !.data = {r.access, r.refresh} \ {NoToken}]
            /\ UNCHANGED <<imageVars, now>>

\* POST /auth/refresh; the fault is Redis failing when the new tokens are stored
RefreshCredentials ==
    \E refresh_token \in Presentable, fault \in {"none", "cache"} :
        LET r == refresh_credentials(refresh_token, fault # "cache")
        IN  /\ fault = "cache" => r.status = 500
            /\ keys' = r.keys
            /\ registry' = r.registry
            /\ last' = [NoReq EXCEPT !.op = "refresh",
                                     !.ak = TSub(refresh_token),
                                     !.token = refresh_token, !.type = "refresh",
                                     !.fault = fault,
                                     !.status = r.status, !.detail = r.detail,
                                     !.http = r.status,
                                     !.access = r.access, !.refresh = r.refresh,
                                     !.data = {r.access, r.refresh} \ {NoToken}]
            /\ UNCHANGED <<imageVars, now>>

\* POST /auth/revoke; the fault is Redis failing once the bearer token has been
\* verified, that is during delete_prefix
RevokeCredentials ==
    \E token \in Presentable, fault \in {"none", "cache"} :
        LET r == revoke_credentials(token, fault # "cache")
        IN  /\ fault = "cache" => r.status = 200
            /\ keys' = r.keys
            /\ registry' = r.registry
            /\ last' = [NoReq EXCEPT !.op = "revoke",
                                     !.ak = TSub(token), !.token = token,
                                     !.type = "access", !.fault = fault,
                                     !.status = r.status, !.detail = r.detail,
                                     !.http = r.status,
                                     !.data = IF r.status = 200
                                              THEN {TSub(token)} ELSE {}]
            /\ UNCHANGED <<imageVars, now>>

\* AccessKeyCRUD.disable on an existing key
DisableAccessKey ==
    \E access_key \in DOMAIN keys :
        /\ keys' = disable(keys, access_key)
        /\ last' = [NoReq EXCEPT !.op = "disable", !.ak = access_key]
        /\ UNCHANGED <<imageVars, registry, now>>

\* TokenManager.verify_token on a presented token
VerifyToken ==
    \E token \in Presentable, token_type \in TokenTypes :
        LET r == verify_token(registry, token, token_type)
        IN  /\ last' = [NoReq EXCEPT !.op = "verify",
                                     !.ak = TSub(token), !.token = token,
                                     !.type = token_type,
                                     !.ret = IF r.ok THEN "payload" ELSE "raise",
                                     !.data = IF r.ok THEN {TSub(token)} ELSE {},
                                     !.status = r.status, !.detail = r.detail]
            /\ UNCHANGED <<imageVars, authVars, now>>

(* ------------------------- requests in flight -------------------------- *)

\* two requests at a time, each with a database session of its own
Procs == {"p1", "p2"}

\* the position of a request: idle, between the SELECT and the commit of an
\* upsert or of a retrieval, or done with the upsert's outcome; for a call of
\* upload_with_retry its local variables and the number of upload_file calls made
Idle == [pc |-> "idle", key |-> "", existing |-> <<>>, image |-> <<>>,
         hit |-> FALSE, ok |-> FALSE, ak |-> <<>>,
         file |-> <<>>, max_retries |-> 0, attempt |-> 0, tried |-> 0, url |-> ""]

\* the uploads that race: the same content under two names
ConcUploads == {u \in Uploads : u[1] = "b1" /\ u[2] \notin {"noext"}}

\* the columns of pf_images an ImageCreate sets
RowFields == {"original_name", "extension", "size", "mime_type", "storage_path"}

\* ImageCRUD.create_or_update_by_key from its commit on, given the row its
\* SELECT returned: the UPDATE writes the attributes whose value changed on the
\* loaded object, the INSERT fails on the unique key when the row exists by now
create_or_update_by_key_commit(tbl, existing_image, image, increment_view) ==
    IF existing_image # <<>>
    THEN [ok |-> TRUE,
          images |-> [tbl EXCEPT ![image.key] =
              [f \in DOMAIN tbl[image.key] |->
                  IF f \in RowFields
                  THEN (IF image[f] # existing_image[1][f]
                        THEN image[f] ELSE tbl[image.key][f])
                  ELSE (IF increment_view
                        THEN existing_image[1].view_count + 1
                        ELSE tbl[image.key].view_count)]]]
    ELSE IF image.key \in DOMAIN tbl
    THEN [ok |-> FALSE, images |-> tbl]
    ELSE [ok |-> TRUE, images |-> create_image(tbl, image)]

\* POST /image/upload of one of the racing uploads, from request to answer
UploadStored ==
    \E u \in ConcUploads :
        LET r == upload_image(u[1], u[2], TRUE, TRUE, TRUE)
        IN  /\ images' = r.images
            /\ blobs' = r.blobs
            /\ cache' = r.cache
            /\ last' = NoReq
            /\ UNCHANGED <<keys, registry, now, sessions>>

\* create_or_update_by_key up to the result of its SELECT
UpsertSelect(p) ==
    \E u \in ConcUploads :
        LET file_key == get_file_md5(u[1])
            path == StoragePathOf(file_key, get_file_extension(u[2]))
            image == [key |-> file_key, original_name |-> u[2],
                      extension |-> get_file_extension(u[2]),
                      size |-> get_file_size_mb(u[1]),
                      mime_type |-> qiniu_get_mime_type(path),
                      storage_path |-> path]
        IN  /\ sessions[p].pc = "idle"
            /\ path \in DOMAIN blobs
            /\ sessions' = [sessions EXCEPT ![p] =
                   [Idle EXCEPT !.pc = "upsert", !.key = file_key,
                                !.existing = get_image_by_key(images, file_key),
                                !.image = <<image>>]]
            /\ last' = NoReq
            /\ UNCHANGED <<images, blobs, cache, keys, registry, now>>

\* create_or_update_by_key from its commit to its return or re-raise
UpsertCommit(p) ==
    LET s == sessions[p]
        r == create_or_update_by_key_commit(images, s.existing, s.image[1], FALSE)
    IN  /\ s.pc = "upsert"
        /\ images' = r.images
        /\ sessions' = [sessions EXCEPT ![p].pc = "done", ![p].ok = r.ok]
        /\ last' = NoReq
        /\ UNCHANGED <<blobs, cache, keys, registry, now>>

\* the upsert's caller has its answer
UpsertReturn(p) ==
    /\ sessions[p].pc = "done"
    /\ sessions' = [sessions EXCEPT ![p] = Idle]
    /\ last' = NoReq
    /\ UNCHANGED <<images, blobs, cache, keys, registry, now>>

\* get_image up to the result of its SELECT: the cache lookup, then the row read
\* by _update_view_count (hit) or by get_image itself (miss)
GetImageSelect(p) ==
    \E md5_key \in DOMAIN images :
        /\ sessions[p].pc = "idle"
        /\ images[md5_key].view_count < MaxViews
        /\ sessions' = [sessions EXCEPT ![p] =
               [Idle EXCEPT !.pc = "get", !.key = md5_key,
                            !.existing = get_image_by_key(images, md5_key),
                            !.hit = get_cached_image(cache, md5_key, TRUE) # <<>>]]
        /\ last' = NoReq
        /\ UNCHANGED <<images, blobs, cache, keys, registry, now>>

\* get_image from its commit on: view_count of the loaded row plus one is
\* written, and on a miss the object is fetched and the cache filled
GetImageCommit(p) ==
    LET s == sessions[p]
        db_image == s.existing[1]
        got == qiniu_get_file_bytes(blobs, db_image.storage_path, TRUE)
    IN  /\ s.pc = "get"
        /\ images' = [images EXCEPT ![s.key].view_count = db_image.view_count + 1]
        /\ cache' = IF ~s.hit /\ got.success /\ BelowCacheLimit(db_image.size)
                    THEN cache_image(cache, s.key, got.content, db_image.mime_type, TRUE)
                    ELSE cache
        /\ sessions' = [sessions EXCEPT ![p] = Idle]
        /\ last' = NoReq
        /\ UNCHANGED <<blobs, keys, registry, now>>

\* issue_token up to update_last_used: the credentials are valid, the key is
\* enabled and unexpired, last_used_at is committed
IssueTokenValidate(p) ==
    \E access_key \in DOMAIN keys :
        LET key_info == validate_credentials(keys, access_key,
                                             generate_secret_key(access_key))
        IN  /\ sessions[p].pc = "idle"
            /\ key_info # <<>>
            /\ key_info[1].is_enabled
            /\ ~(key_info[1].expires_at # NoDate /\ key_info[1].expires_at[1] < now)
            /\ keys' = update_last_used(keys, access_key)
            /\ sessions' = [sessions EXCEPT ![p] =
                   [Idle EXCEPT !.pc = "issue", !.ak = access_key]]
            /\ last' = NoReq
            /\ UNCHANGED <<images, blobs, cache, registry, now>>

\* issue_token from generate_token_pair on: both tokens are stored and returned
IssueTokenStore(p) ==
    LET s == sessions[p]
        pair == generate_token_pair(registry, s.ak, TRUE)
    IN  /\ s.pc = "issue"
        /\ registry' = pair.registry
        /\ sessions' = [sessions EXCEPT ![p] = Idle]
        /\ last' = NoReq
        /\ UNCHANGED <<images, blobs, cache, keys, now>>

\* issue_token from generate_token_pair on, with Redis failing when the refresh
\* token is stored: the access token is in the registry, the caller gets 500
IssueTokenStoreFails(p) ==
    LET s == sessions[p]
        pair == generate_token_pair_stores(registry, s.ak, TRUE, FALSE)
    IN  /\ s.pc = "issue"
        /\ registry' = pair.registry
        /\ sessions' = [sessions EXCEPT ![p] = Idle]
        /\ last' = [NoReq EXCEPT !.op = "issue", !.ak = s.ak, !.fault = "cache",
                                 !.status = 500, !.http = 500,
                                 !.detail = "Could not generate token pair",
                                 !.access = pair.access, !.refresh = pair.refresh]
        /\ UNCHANGED <<images, blobs, cache, keys, now>>

\* revoke_credentials up to the return of revoke_tokens, for a bearer token
\* that verify_request accepted
RevokeTokens(p) ==
    \E token \in {e.token : e \in registry} :
        /\ sessions[p].pc = "idle"
        /\ verify_token(registry, token, "access").ok
        /\ registry' = revoke_tokens(registry, TSub(token), TRUE)
        /\ sessions' = [sessions EXCEPT ![p] =
               [Idle EXCEPT !.pc = "revoke", !.ak = TSub(token)]]
        /\ last' = NoReq
        /\ UNCHANGED <<images, blobs, cache, keys, now>>

\* revoke_credentials from disable_access_key to its answer; the outcome of
\* disable_access_key is not looked at
RevokeDisable(p) ==
    \E fault \in {"none", "db"} :
        LET s == sessions[p]
            r == disable_access_key_result(keys, s.ak, fault # "db")
        IN  /\ s.pc = "revoke"
            /\ keys' = r.keys
            /\ sessions' = [sessions EXCEPT ![p] = Idle]
            /\ last' = [NoReq EXCEPT !.op = "revoke", !.ak = s.ak,
                                     !.type = "access", !.fault = fault,
                                     !.status = 200, !.http = 200,
                                     !.detail = "Credentials successfully revoked",
                                     !.data = {s.ak}]
            /\ UNCHANGED <<images, blobs, cache, registry, now>>

(* ----------------------- utils/qiniu_manager OSSManager ----------------- *)

\* the largest max_retries the model passes (the default of the code is 100)
MaxRetries == 3

\* what can happen to one upload_file call: the object is put and its URL signed,
\* the object is put and signing fails, the put (or the open of the local file)
\* fails, or the call raises
AttemptOutcomes == {"ok", "unsigned", "fail", "raise"}

NoUrl == ""

\* OSSManager._get_file_category, for the extensions of the model (the code
\* compares with the dot in front: ".jpg", ".png")
get_file_category(file_extension) ==
    IF file_extension \in {"jpg", "png"} THEN "images" ELSE "other"

\* OSSManager._get_full_oss_path: base path, category, date folder, file name
get_full_oss_path(file_name) ==
    <<get_file_category(get_file_extension(file_name)), now, file_name>>

\* OSSManager.get_file_url: the signed URL of the object, "" when signing fails
get_file_url(oss_file_path, signUp) ==
    IF ~signUp THEN NoUrl
    ELSE CASE oss_file_path[3] = "photo.jpg" -> "https://oss/images/photo.jpg"
           [] oss_file_path[3] = "PIC.PNG" -> "https://oss/images/PIC.PNG"
           [] OTHER -> "https://oss/other/noext"

\* OSSManager.upload_file(local_file_path): (success, url) and the bucket after
\* it; every failure of the put is caught and answered with (False, "")
upload_file(store, content, local_file_path, outcome) ==
    LET full_oss_path == get_full_oss_path(local_file_path)
    IN  IF outcome \in {"ok", "unsigned"}
        THEN [raised |-> FALSE, success |-> TRUE,
              url |-> get_file_url(full_oss_path, outcome = "ok"),
              blobs |-> Put(store, full_oss_path, content)]
        ELSE [raised |-> outcome = "raise", success |-> FALSE, url |-> NoUrl,
              blobs |-> store]

\* a loop test that allows one attempt more
upload_with_retry_continues_once_more(s) == s.attempt <= s.max_retries + 1

\* OSSManager.upload_with_retry, the loop test: while attempt <= max_retries
upload_with_retry_continues(s) == s.attempt <= s.max_retries

\* OSSManager.upload_with_retry, one pass of the loop body given what upload_file
\* did: return the url on success, else log, attempt += 1 and sleep
upload_with_retry_pass(s, r) ==
    IF ~r.raised /\ r.success
    THEN [s EXCEPT !.pc = "returned", !.ok = TRUE, !.url = r.url, !.tried = @ + 1]
    ELSE [s EXCEPT !.attempt = @ + 1, !.tried = @ + 1]

\* the local files the model hands to upload_with_retry
RetryFiles == {u \in Uploads : u[1] = "b1" /\ u[2] \in {"photo.jpg", "noext"}}

\* upload_with_retry is called: attempt = 1
UploadWithRetryCall(p) ==
    \E u \in RetryFiles, max_retries \in 0..MaxRetries :
        /\ sessions[p].pc = "idle"
        /\ sessions' = [sessions EXCEPT ![p] =
               [Idle EXCEPT !.pc = "retry", !.file = u,
                            !.max_retries = max_retries, !.attempt = 1]]
        /\ last' = NoReq
        /\ UNCHANGED <<images, blobs, cache, keys, registry, now>>

\* one pass of the loop: upload_file is called once
UploadAttempt(p) ==
    \E outcome \in AttemptOutcomes :
        LET s == sessions[p]
            r == upload_file(blobs, s.file[1], s.file[2], outcome)
        IN  /\ s.pc = "retry"
            /\ upload_with_retry_continues(s)
            /\ blobs' = r.blobs
            /\ sessions' = [sessions EXCEPT ![p] = upload_with_retry_pass(s, r)]
            /\ last' = NoReq
            /\ UNCHANGED <<images, cache, keys, registry, now>>

\* the loop ends without a success: "" is returned
UploadGiveUp(p) ==
    LET s == sessions[p]
    IN  /\ s.pc = "retry"
        /\ ~upload_with_retry_continues(s)
        /\ sessions' = [sessions EXCEPT ![p] =
               [s EXCEPT !.pc = "returned", !.ok = FALSE, !.url = NoUrl]]
        /\ last' = NoReq
        /\ UNCHANGED <<images, blobs, cache, keys, registry, now>>

\* the caller has the return value
UploadWithRetryDone(p) ==
    /\ sessions[p].pc = "returned"
    /\ sessions' = [sessions EXCEPT ![p] = Idle]
    /\ last' = NoReq
    /\ UNCHANGED <<images, blobs, cache, keys, registry, now>>

(* ------------------------------- time ---------------------------------- *)

\* one unit of time passes; Redis drops the keys whose TTL has run out; the
\* request record survives only as the cache history of a retrieval
Tick ==
    /\ now < MaxTime
    /\ now' = now + 1
    /\ cache' = Unexpired(cache, now + 1)
    /\ registry' = {e \in registry : e.until > now + 1}
    /\ last' = IF last.op = "get"
               THEN [last EXCEPT !.lapsed = @ \cup Lapsed(cache, now + 1)]
               ELSE NoReq
    /\ UNCHANGED <<images, blobs, keys, sessions>>

(* --------------------------- specifications ---------------------------- *)

Init ==
    /\ images = Empty
    /\ blobs = Empty
    /\ cache = Empty
    /\ keys = Empty
    /\ registry = {}
    /\ now = 0
    /\ last = NoReq
    /\ sessions = [p \in Procs |-> Idle]

NextImage == UploadImage \/ CreateOrUpdateByKey \/ GetImage \/ Tick

SpecImage == Init /\ [][NextImage]_vars

NextDelete == NextImage \/ DeleteImage

SpecDelete == Init /\ [][NextDelete]_vars

NextAuth ==
    \/ CreateAccessKey
    \/ ListAccessKeys
    \/ IssueToken
    \/ RefreshCredentials
    \/ RevokeCredentials
    \/ DisableAccessKey
    \/ VerifyToken
    \/ Tick

SpecAuth == Init /\ [][NextAuth]_vars

NextConc ==
    \/ UploadStored
    \/ \E p \in Procs :
           \/ UpsertSelect(p)
           \/ UpsertCommit(p)
           \/ UpsertReturn(p)
           \/ GetImageSelect(p)
           \/ GetImageCommit(p)

SpecConc == Init /\ [][NextConc]_vars

NextAuthConc ==
    \/ CreateAccessKey
    \/ VerifyToken
    \/ \E p \in Procs :
           \/ IssueTokenValidate(p)
           \/ IssueTokenStore(p)
           \/ IssueTokenStoreFails(p)
           \/ RevokeTokens(p)
           \/ RevokeDisable(p)

SpecAuthConc == Init /\ [][NextAuthConc]_vars

NextRetry ==
    \E p \in Procs :
        \/ UploadWithRetryCall(p)
        \/ UploadAttempt(p)
        \/ UploadGiveUp(p)
        \/ UploadWithRetryDone(p)

SpecRetry == Init /\ [][NextRetry]_vars

\* upload_with_retry is straight-line synchronous code: a call that has begun
\* takes its next pass or returns
SpecRetryFair ==
    SpecRetry /\ \A p \in Procs : WF_vars(UploadAttempt(p) \/ UploadGiveUp(p))

Next == NextImage \/ NextDelete \/ NextAuth \/ NextConc \/ NextAuthConc \/ NextRetry

Spec == Init /\ [][Next]_vars

(* ------------------------- image pipeline claims ----------------------- *)

\* an upload that the spec lets succeed: a file name with an extension, no store failure
GoodUpload == last.op = "upload" /\ get_file_extension(last.name) # NoExt /\ last.fault = "none"

\* C1: every upload of bytes b that nothing prevents from succeeding leaves exactly one
\* row keyed hash(b), answers with that fingerprint, creates the row with view_count 0
\* and leaves view_count as it was.
C1_IdempotentUpload ==
    GoodUpload =>
        /\ last.key \in DOMAIN images
        /\ last.out = get_file_md5(last.content)
        /\ images[last.key].view_count = last.views

\* the mime types under which bytes of this fingerprint were accepted by the object store
UploadedMimes(md5_key) ==
    {qiniu_get_mime_type(p) : p \in {q \in DOMAIN blobs : q[1] = md5_key}}

\* C2: once bytes b were uploaded under a file name with an extension, a GET by hash(b)
\* succeeds and returns exactly b with the mime type recorded at upload, from the cache
\* or from the object store.
C2_RoundTrip ==
    (last.op = "get" /\ last.fault = "none" /\ UploadedMimes(last.key) # {}) =>
        /\ last.http = 200
        /\ get_file_md5(last.out) = last.key
        /\ last.mime \in UploadedMimes(last.key)

\* a retrieval that returned content for a fingerprint that has a row
Retrieved == last.op = "get" /\ last.ret = "dict" /\ last.key \in DOMAIN images

Ordered(steps) ==
    /\ \E n \in 1..3 : steps = SubSeq(<<"cache", "meta", "blob">>, 1, n)

BlobRead(r) == \E i \in DOMAIN r.steps : r.steps[i] = "blob"

\* the second of two successive retrievals of a small payload, no TTL expiry between
Second ==
    /\ last.op = "get" /\ last.after # ""
    /\ last.key \in DOMAIN images
    /\ images[last.key].size < CACHE_SIZE_LIMIT_MB

PrefixOf(token_type) ==
    IF token_type = "access" THEN TOKEN_REDIS_PREFIX ELSE TOKEN_REFRESH_REDIS_PREFIX

Registered(t, token_type) ==
    \E e \in registry :
        e.prefix = PrefixOf(token_type) /\ e.sub = TSub(t) /\ e.token = t

Verifies(reg, t) == \E ty \in TokenTypes : verify_token(reg, t, ty).ok

\* the request recorded in last is the latest thing that happened
Fresh(op) == last.op = op

\* C3: once the revocation of an access key has returned successfully, no access
\* token and no refresh token issued for that key before it verifies any more,
\* although signature and expiry are still valid
C3_Revocation ==
    (Fresh("revoke") /\ last.http = 200)
        => \A t \in Mintable : TSub(t) = last.ak => ~Verifies(registry, t)

\* C4: a refresh token that has been redeemed successfully cannot be redeemed a
\* second time: the second refresh with the same token fails with 401
C4_Rotation ==
    (Fresh("refresh") /\ last.http = 200 /\ last.refresh # last.token)
        => /\ ~Registered(last.token, "refresh")
           /\ refresh_credentials(last.token, TRUE).status = 401

KeyDisabled(tbl, access_key) ==
    access_key \in DOMAIN tbl /\ ~tbl[access_key].is_enabled

KeyExpired(tbl, access_key) ==
    /\ access_key \in DOMAIN tbl
    /\ tbl[access_key].expires_at # NoDate
    /\ tbl[access_key].expires_at[1] <= now

\* C8: a token request with the correct access key and secret of a disabled key
\* fails with 403 and issues no token
C8_Disabled403 ==
    (/\ Fresh("issue")
     /\ last.fault = "none"
     /\ KeyDisabled(keys, last.ak)
     /\ last.secret = generate_secret_key(last.ak))
        => /\ last.http = 403
           /\ last.access = NoToken
           /\ last.refresh = NoToken

IssuanceStep == last'.op \in {"issue", "refresh"} /\ now' = now

\* C10: a token request with correct credentials or a refresh with a registered
\* refresh token, made for a key that is disabled or past its expires_at, adds no
\* registry entry and returns no token; every step other than a revocation or
\* the passing of time leaves the tokens that verified verifying
C10_NoIssuanceFromDeadKey ==
    [][/\ (IssuanceStep /\ (KeyDisabled(keys, last'.ak) \/ KeyExpired(keys, last'.ak)))
            => /\ registry' = registry
               /\ last'.access = NoToken
               /\ last'.refresh = NoToken
       /\ (now' = now /\ last'.op # "revoke")
            => \A t \in Mintable : Verifies(registry, t) => Verifies(registry', t)]_vars

C10_Witness ==
    /\ Fresh("refresh")
    /\ KeyDisabled(keys, last.ak)
    /\ Registered(last.token, "refresh")
    /\ TExp(last.token) >= now
    /\ last.status = 401
    /\ last.access = NoToken
    /\ \E t \in Mintable : TType(t) = "access" /\ TSub(t) = last.ak
                            /\ verify_token(registry, t, "access").ok

(* ------------------------- image error handling ------------------------- *)

\* a retrieval that found the row and could not fetch its object
BlobMissing ==
    /\ last.op = "get"
    /\ last.fault = "blob"
    /\ BlobRead(last)
    /\ last.key \in DOMAIN images

\* C11: a GET for a fingerprint without a row answers 404 NotFound; a GET for a
\* fingerprint whose row exists and whose object cannot be fetched answers with a
\* 500-class error and never with the NotFound response
C11_RetrievalErrors ==
    /\ (last.op = "get" /\ last.ret = "none") => (last.http = 404 /\ last.code = 404)
    /\ BlobMissing => /\ last.http \in 500..599
                      /\ <<last.http, last.code>> # <<404, 404>>

\* a step that serves an upload
UploadStep == last'.op = "upload" /\ now' = now

\* the file names from which no extension can be determined
Extensionless == {"noext"}

\* C12: an upload whose object store write fails is refused and leaves the
\* metadata store, the cache and the object store as they were
C12_BlobWriteAborts ==
    [][(UploadStep /\ last'.fault = "blob" /\ last'.name \notin Extensionless)
            => /\ images' = images
               /\ cache' = cache
               /\ blobs' = blobs
               /\ last'.ret = "raise"
               /\ last'.http # 200]_vars

C12_Witness ==
    /\ last.op = "upload"
    /\ last.fault = "blob"
    /\ last.name \notin Extensionless
    /\ last.detail = "Upload Failed!"
    /\ last.key \in DOMAIN images
    /\ last.key \in DOMAIN cache
    /\ \E p \in DOMAIN blobs : p[1] = last.key

\* C13: an upload for which no extension can be determined is rejected with a
\* validation error and writes nothing to the object store, the metadata store
\* or the cache
C13_ExtensionFirst ==
    [][(UploadStep /\ last'.name \in Extensionless)
            => /\ blobs' = blobs
               /\ images' = images
               /\ cache' = cache
               /\ last'.ret = "raise"
               /\ last'.status = 400
               /\ last'.detail = "Invalid file type!"]_vars

C13_Witness ==
    /\ last.op = "upload"
    /\ last.name \in Extensionless
    /\ last.fault = "none"
    /\ last.status = 400
    /\ last.detail = "Invalid file type!"
    /\ \A p \in DOMAIN blobs : p[1] # last.key

\* the endpoint's answer to an upload that fails validation, in the current state
ValidationAnswer ==
    upload_image_view(upload_image("b1", "noext", TRUE, TRUE, TRUE))

\* C14: a successful upload answers 200 with the fingerprint, an upload without a
\* recognizable extension answers 400, an upload during which the metadata store
\* or the object store fails answers 500, and the last two answers differ in
\* status or code
C14_UploadOutcomes ==
    last.op = "upload"
        => /\ (last.fault = "none" /\ last.name \notin Extensionless)
                => (last.http = 200 /\ last.out = get_file_md5(last.content))
           /\ last.name \in Extensionless => last.http = 400
           /\ (last.fault \in {"db", "blob"} /\ last.name \notin Extensionless)
                => /\ last.http = 500
                   /\ <<last.http, last.code>>
                        # <<ValidationAnswer.http, ValidationAnswer.code>>

(* ------------------------------ cache claims ---------------------------- *)

\* the payload a cache entry carries
CachedPayload(k) == FromHex(cache[k].content)

\* C15: every cache entry belongs to a payload whose size is below the cache
\* threshold; no upload and no retrieval backfill caches a payload at or above it
C15_CacheSizePolicy ==
    \A k \in DOMAIN cache :
        /\ get_file_size_mb(CachedPayload(k)) < CACHE_SIZE_LIMIT_MB
        /\ get_file_md5(CachedPayload(k)) = k

C15_Witness ==
    /\ last.op = "get"
    /\ last.key = "k2"
    /\ last.ret = "dict"
    /\ last.fault = "none"
    /\ get_file_size_mb(last.content) >= CACHE_SIZE_LIMIT_MB
    /\ "k2" \notin DOMAIN cache
    /\ "k1" \in DOMAIN cache

\* a step that serves a retrieval
GetStep == last'.op = "get" /\ now' = now

\* the outcome of the upload of last' had the cache store not failed
SameUploadUnfailed == upload_image(last'.content, last'.name, TRUE, TRUE, TRUE)

Authenticated(req) ==
    /\ req.header # NoHeader
    /\ req.header[1] = "Bearer"
    /\ verify_token(registry, req.header[2], "access").ok

\* C17 (Protected routes): a request to a route that is not whitelisted reaches
\* its handler only if it carried a bearer token that verifies as an access
\* token; here the route is key creation, and every other such request is
\* answered 401
C17_ProtectedRoutes ==
    (last.op = "create" /\ ~is_path_whitelisted(KeysPath))
        => /\ last.http = 200 => Authenticated(last)
           /\ ~Authenticated(last) => last.http = 401 /\ last.ak \notin DOMAIN keys


(* ------------------------------- C18 ----------------------------------- *)

Plaintexts == {generate_secret_key(ak) : ak \in AccessKeyIds}
SecretHashes == {hash_secret_key(s) : s \in Plaintexts}

\* C18 (secret disclosed once): the stored secret_key is a hash that differs
\* from the plaintext; the answer to a creation carries the plaintext of the
\* created key and no other secret; the answers to list, issue, refresh, revoke
\* and verify carry neither a plaintext nor a hash
C18_SecretOnce ==
    /\ \A ak \in DOMAIN keys :
           /\ keys[ak].secret_key # generate_secret_key(ak)
           /\ keys[ak].secret_key = hash_secret_key(generate_secret_key(ak))
    /\ (last.op = "create" /\ last.http = 200)
           => last.data \cap (Plaintexts \cup SecretHashes)
                  = {generate_secret_key(last.ak)}
    /\ last.op \in {"list", "issue", "refresh", "revoke", "verify"}
           => last.data \cap (Plaintexts \cup SecretHashes) = {}

\* a listing of two stored keys, one of them used, answered with their data
C18_Witness ==
    /\ last.op = "list"
    /\ DOMAIN keys = AccessKeyIds
    /\ \E ak \in DOMAIN keys : keys[ak].last_used_at # NoDate
    /\ AccessKeyIds \subseteq last.data


(* ------------------------------- C19 ----------------------------------- *)

\* C19 (view_count monotone): no step, whatever the interleaving of uploads and
\* retrievals, commits a view_count lower than the one committed before it, and
\* no row disappears
C19_ViewCountMonotone ==
    [][\A k \in DOMAIN images :
           /\ k \in DOMAIN images'
           /\ images'[k].view_count >= images[k].view_count]_vars


(* ------------------------------- C20 ----------------------------------- *)

\* both requests have finished an upsert of the same fingerprint, and neither
\* found a row when it looked
RacedUpserts ==
    /\ \A p \in Procs : sessions[p].pc = "done" /\ sessions[p].existing = <<>>
    /\ \A p, q \in Procs : sessions[p].key = sessions[q].key

\* C20 (upsert atomicity): when two upserts of the same content run concurrently
\* for a fingerprint without a row, both succeed, the row exists, and its
\* storage_path and mime_type are those of one of the two uploads
C20_UpsertAtomic ==
    RacedUpserts =>
        /\ \A p \in Procs : sessions[p].ok
        /\ \A p \in Procs : sessions[p].key \in DOMAIN images
        /\ \E p \in Procs :
               LET row == images[sessions[p].key]
                   image == sessions[p].image[1]
               IN  /\ row.storage_path = image.storage_path
                   /\ row.mime_type = image.mime_type


(* ------------------------------- C21 ----------------------------------- *)

\* C21 (no lost view-count updates): every retrieval that finishes raises the
\* committed view_count of its fingerprint by exactly one, so K concurrent
\* retrievals raise it by K
C21_NoLostUpdate ==
    [][\A p \in Procs :
           (sessions[p].pc = "get" /\ sessions'[p].pc = "idle")
               => images'[sessions[p].key].view_count
                      = images[sessions[p].key].view_count + 1]_vars


(* ------------------------------- C22 ----------------------------------- *)

\* C22 (revoke versus concurrent issuance): once a revoke has completed, that is
\* once its key is disabled, no registry entry of that key exists, whatever
\* issuance ran beside it
C22_RevokeVsIssuance ==
    \A ak \in DOMAIN keys :
        ~keys[ak].is_enabled => \A e \in registry : e.sub # ak


(* ------------------------------- C23 ----------------------------------- *)

\* verify_token has just refused a token of its own type because it is expired
\* or has no registry entry, and the token's key has been through a completed
\* revoke: the token was issued and active before, and is revoked now
RefusedAsDead ==
    /\ last.op = "verify" /\ last.ret = "raise"
    /\ last.detail \in {"Token has expired", "Token is invalid or expired"}
    /\ last.type = TType(last.token)
    /\ KeyDisabled(keys, TSub(last.token))

\* C23 (token state machine): expired and revoked are terminal; no step that
\* follows a refusal of a dead token puts that token string back into the
\* registry, so it never verifies again
C23_TerminalStates ==
    [][RefusedAsDead =>
           ~\E e \in registry' :
               /\ e.prefix = PrefixOf(last.type)
               /\ e.sub = TSub(last.token)
               /\ e.token = last.token]_vars


(* ------------------------------- C24 ----------------------------------- *)

\* the registry entries that hold token t under the prefix of token_type
EntriesOf(t, token_type) ==
    {e \in registry : e.prefix = PrefixOf(token_type) /\ e.token = t}

\* C24 (issuance registers both tokens): after a successful issue_token the
\* registry holds one entry for the access token under the access prefix and one
\* for the refresh token under the refresh prefix, each for the key and expiring
\* with its token, and each token verifies as its own type
C24_IssuanceRegisters ==
    (Fresh("issue") /\ last.http = 200)
        => /\ TType(last.access) = "access" /\ TType(last.refresh) = "refresh"
           /\ \A t \in {last.access, last.refresh} :
                  /\ Cardinality(EntriesOf(t, TType(t))) = 1
                  /\ \A e \in EntriesOf(t, TType(t)) :
                         /\ e.sub = last.ak
                         /\ e.until = TExp(t)
                         /\ e.until - now
                                = (IF TType(t) = "access" THEN TOKEN_EXPIRE_SECONDS
                                   ELSE TOKEN_REFRESH_EXPIRE_SECONDS)
                  /\ verify_token(registry, t, TType(t)).ok

\* a successful issuance at a time when the key had been used before
C24_Witness ==
    /\ Fresh("issue") /\ last.http = 200
    /\ now > 0
    /\ Cardinality({e \in registry : e.sub = last.ak}) > 2
    /\ verify_token(registry, last.access, "access").ok
    /\ verify_token(registry, last.refresh, "refresh").ok


(* ------------------------------- C25 ----------------------------------- *)

RefreshStep == last'.op = "refresh" /\ last'.http = 200 /\ now' = now

\* C25 (refresh leaves the old access token alone): a successful refresh
\* registers a new access and refresh token and leaves every registry entry
\* under the access prefix as it was, so each access token that verified before
\* the refresh verifies after it
C25_RefreshKeepsAccess ==
    [][RefreshStep =>
           /\ \A e \in registry : e.prefix = TOKEN_REDIS_PREFIX => e \in registry'
           /\ \E e \in registry' :
                  e.prefix = TOKEN_REDIS_PREFIX /\ e.token = last'.access
           /\ \E e \in registry' :
                  e.prefix = TOKEN_REFRESH_REDIS_PREFIX /\ e.token = last'.refresh
           /\ \A t \in {e.token : e \in registry} :
                  verify_token(registry, t, "access").ok
                      => verify_token(registry', t, "access").ok]_vars

\* a successful refresh one tick after the issuance: the old access token of
\* the key is still registered next to the new one
C25_Witness ==
    /\ Fresh("refresh") /\ last.http = 200
    /\ \E e \in registry :
           /\ e.prefix = TOKEN_REDIS_PREFIX /\ e.sub = last.ak
           /\ e.token # last.access
           /\ verify_token(registry, e.token, "access").ok


(* ------------------------------- C26 ----------------------------------- *)

\* C26 (revoke_tokens reports failure): a revocation during which the registry
\* fails is answered 500, and a revocation answered 200 leaves no registry entry
\* of the key
C26_RevokeReportsFailure ==
    /\ (Fresh("revoke") /\ last.fault = "cache") => last.http = 500
    /\ (Fresh("revoke") /\ last.http = 200)
           => ~\E e \in registry : e.sub = last.ak

(* ------------------------------- C27 ----------------------------------- *)

RevokeStep == last'.op = "revoke" /\ last'.http = 200 /\ now' = now

\* C27 (revocation is scoped to one key): a revocation for key k removes only
\* registry entries whose subject is k; every token of another key that
\* verified before it verifies after it
C27_RevokeScoped ==
    [][RevokeStep =>
           /\ \A e \in registry : e.sub # last'.ak => e \in registry'
           /\ registry' \subseteq registry
           /\ \A t \in {e.token : e \in registry} :
                  TSub(t) # last'.ak
                      => \A ty \in TokenTypes :
                             verify_token(registry, t, ty).ok
                                 => verify_token(registry', t, ty).ok]_vars

\* a revocation that removed the entries of its key while an access and a
\* refresh token of the other key stay registered and verify
C27_Witness ==
    /\ Fresh("revoke") /\ last.http = 200 /\ last.fault = "none"
    /\ ~\E e \in registry : e.sub = last.ak
    /\ \E a, r \in {e.token : e \in registry} :
           /\ TSub(a) # last.ak /\ TSub(r) # last.ak
           /\ verify_token(registry, a, "access").ok
           /\ verify_token(registry, r, "refresh").ok


(* ------------------------------- C28 ----------------------------------- *)

\* C28 (last_used_at follows every successful use): after a successful
\* issuance or refresh, and after a successful token verification, last_used_at
\* of the token's key is the present instant
C28_LastUsedRefreshed ==
    /\ (last.op \in {"issue", "refresh"} /\ last.http = 200)
           => keys[last.ak].last_used_at = <<now>>
    /\ (Fresh("verify") /\ last.ret = "payload" /\ TSub(last.token) \in DOMAIN keys)
           => keys[TSub(last.token)].last_used_at = <<now>>


(* ------------------------------- C29 ----------------------------------- *)

\* C29 (last write wins on re-upload): after content whose fingerprint has a row
\* is uploaded again, with a valid name and nothing failing, the row's
\* original_name, mime_type and storage_path are those of this upload
C29_LastWriteWins ==
    (/\ Fresh("upload") /\ last.fault = "none"
     /\ last.name \notin Extensionless
     /\ last.key \in DOMAIN images)
        => LET path == StoragePathOf(last.key, get_file_extension(last.name))
           IN  /\ images[last.key].original_name = last.name
               /\ images[last.key].storage_path = path
               /\ images[last.key].mime_type = qiniu_get_mime_type(path)


(* ------------------------------- C30 ----------------------------------- *)

UpsertStep == last'.op = "upsert" /\ now' = now

FailedRetrieval ==
    /\ last.op = "get"
    /\ last.ret # "dict"
    /\ last.key \in DOMAIN images

\* C31: a retrieval that fails although the metadata row exists (object missing or
\* object store error) leaves view_count as it was; only retrievals that return
\* content increment it
C31_ViewsOnDelivery ==
    FailedRetrieval => images[last.key].view_count = last.views

\* a retrieval that finds an entry of its fingerprint in a reachable cache
CacheHitStep ==
    /\ GetStep
    /\ last'.fault # "cache"
    /\ last'.key \in DOMAIN cache

\* C32: on a cache hit the retrieval returns the cached bytes and mime type whether
\* or not the view counter update succeeds; a failure of the metadata store during
\* that update does not reach the caller (and changes no row)
C32_BestEffortCounter ==
    [][CacheHitStep =>
           /\ last'.ret = "dict"
           /\ last'.status = 0
           /\ Hex(last'.content) = cache[last'.key].content
           /\ last'.mime = cache[last'.key].mime_type
           /\ (last'.fault = "db" => images' = images)]_vars

\* a retrieval served from the cache while the metadata store was failing
C32_Witness ==
    /\ last.op = "get"
    /\ last.hit
    /\ last.fault = "db"
    /\ last.ret = "dict"
    /\ last.key \in DOMAIN images
    /\ get_file_md5(last.content) = last.key
    /\ images[last.key].view_count = last.views

\* the step rewrote the cache entry of k: an upload of k or the backfill of a
\* retrieval of k that missed the cache, with a full retention window from now
Rewritten(k) ==
    /\ last'.key = k
    /\ last'.op = "upload" \/ (last'.op = "get" /\ ~last'.hit)
    /\ cache'[k].until = now + CACHE_EXPIRE

\* C33: a retrieval served from the cache changes neither the content nor the
\* remaining TTL of the entry; an entry changes only by an upload or a backfill,
\* which start a new retention window, and no entry outlives its window
C33_PureTTL ==
    [][/\ CacheHitStep => cache' = cache
       /\ \A k \in DOMAIN cache \cap DOMAIN cache' :
              cache'[k] # cache[k] => Rewritten(k)
       /\ \A k \in DOMAIN cache' :
              /\ cache'[k].until > now'
              /\ cache'[k].until <= now' + CACHE_EXPIRE]_vars

\* an entry written at time 0 that was read from the cache during its retention
\* window and is gone at the end of it
C33_Witness ==
    /\ last.op = "get"
    /\ last.hit
    /\ last.key \in last.lapsed
    /\ last.key \notin DOMAIN cache
    /\ now = CACHE_EXPIRE

(* ------------------------ cache and metadata ---------------------------- *)

\* no request is between two of its steps
Quiescent == \A p \in Procs : sessions[p].pc = "idle"

RowlessRetrieval ==
    /\ last.op = "get"
    /\ last.fault = "none"
    /\ last.key \notin DOMAIN images

\* C35: a retrieval of a fingerprint whose metadata row has been deleted yields
\* NotFound, also when a cache entry written before the deletion is still there
C35_DeletedNotServed ==
    RowlessRetrieval => (last.ret = "none" /\ last.http = 404)

(* --------------------------- failed issuance ---------------------------- *)

\* a step that ends an issuance with an error
FailedIssuanceStep == last'.op = "issue" /\ last'.http = 500

\* C36: an issuance that fails reports an error and leaves no registry entry
\* that was not there before the call, so no token that was never returned to
\* a client verifies
C36_FailedIssuanceLeavesNothing ==
    [][FailedIssuanceStep =>
           /\ last'.access = NoToken /\ last'.refresh = NoToken
           /\ registry' \subseteq registry]_vars

(* ------------------------- revoke and disable --------------------------- *)

\* the revoke endpoint has answered with its success message
RevokeSucceeded == last.op = "revoke" /\ last.http = 200

\* C37: when revoke_credentials returns its success message for a key, no
\* registry entry of the key is left, the key is disabled, and its credentials
\* obtain no tokens
C37_RevokeDisables ==
    RevokeSucceeded =>
        /\ ~\E e \in registry : e.sub = last.ak
        /\ ~keys[last.ak].is_enabled
        /\ issue_token(last.ak, generate_secret_key(last.ak), TRUE).status # 200

(* ----------------------------- bounded retry ---------------------------- *)

\* the call of p returns after a successful pass
ReturnsUrl(p) ==
    /\ sessions[p].pc = "retry"
    /\ sessions'[p].pc = "returned"
    /\ sessions'[p].ok

\* what holds of every call at every moment: no more than max_retries calls of
\* upload_file, all calls made so far failed while the loop runs, the success is
\* the last call made, and "" is returned after max_retries failures
RetryBounds(s) ==
    /\ s.pc \in {"retry", "returned"} => s.tried <= s.max_retries
    /\ s.pc = "retry" => s.tried = s.attempt - 1
    /\ (s.pc = "returned" /\ s.ok) => s.tried = s.attempt
    /\ (s.pc = "returned" /\ ~s.ok) => (s.url = NoUrl /\ s.tried = s.max_retries)

============================================================================
